---- MODULE Spec2Model ----
(***************************************************************************)
(* PageList (src/qpdf/qpdf_pagelist.h): the mutable, list-like view over   *)
(* the pages of a QPDF document that pikepdf binds to Python.              *)
(*                                                                         *)
(* A page handle is an indirect object of some QPDF: the record            *)
(* [owner, obj, content].  owner/obj is the object's identity (the QPDF    *)
(* that owns it and its object number); content names the page whose       *)
(* dictionary it carries, so that a copy made by makeIndirectObject can be *)
(* told from, and related to, the page it was copied from.                 *)
(*                                                                         *)
(* The document engine (libqpdf) is outside the repository.  It is         *)
(* modelled by the interface PageList calls: getAllPages, addPageAt,       *)
(* addPage, removePage, makeIndirectObject, getOwningQPDF.  addPageAt and  *)
(* removePage take a page HANDLE, not a position: the engine looks the     *)
(* object up in the page collection.  When the same object sits at two     *)
(* positions the interface does not say which one the lookup resolves to;  *)
(* that is a choice (pick) made afresh for every call of the binding.      *)
(***************************************************************************)
EXTENDS Integers, Sequences, FiniteSets, TLC

\* ------------------------------------------------------------------ bounds
InitPages == 2      \* pages each document starts with
MaxPages  == 3      \* longest page collection explored
MaxObj    == 3      \* highest object number a document hands out
MaxHolds  == 3      \* most inc_ref holds taken on one document
MaxSrc    == 2      \* longest iterable passed to a bulk operation
SizeBits  == 16     \* modelled width of size_t / ssize_t (the build's is 64)
MaxLists  == 4      \* most PageList objects alive (the two documents' and iterators)

\* Two QPDF documents.  "A" is the document whose PageList is exercised; "B"
\* is a foreign document its pages may come from: its pages are read (by
\* index, or as the source of extend) and never changed.
Docs == {"A", "B"}
SizeMod == 2^SizeBits
SsizeMax == (SizeMod \div 2) - 1

VARIABLES
    pages,      \* pages[g]: qpdf.getAllPages() of document g, in order
    nextObj,    \* nextObj[g]: object number the next new indirect object of g gets
    holds,      \* holds[g]: inc_ref()s taken on the Python object of document g
    lists,      \* the PageList objects: <<[qpdf, iterpos, yielded, ended], ...>>
    last        \* the last call of the binding: arguments, outcome, state before

vars == <<pages, nextObj, holds, lists, last>>

\* ----------------------------------------------------------------- handles
Handle(g, k, c) == [owner |-> g, obj |-> k, content |-> c]

\* the page document g was created with at object number k
OwnPage(g, k) == Handle(g, k, <<g, k>>)

\* a Python object that is no page (the cast fails, or isPageObject() is false)
NotAPage == Handle("none", 0, <<"none", 0>>)

isPageObject(h) == h.owner # "none"

getOwningQPDF(h) == h.owner

\* ------------------------------------------------------- machine integers
\* a value stored in a size_t
ToSize(x) == x % SizeMod

\* a size_t passed where ssize_t is expected
ToSsize(x) == IF ToSize(x) > SsizeMax THEN ToSize(x) - SizeMod ELSE ToSize(x)

\* ------------------------------------------------------------- the engine
\* The world the operations thread through: the three document variables,
\* the pending exception (err), the value returned (ret) and the record of
\* the engine calls that changed a page collection (log).
World(p, n, h) ==
    [pages |-> p, nextObj |-> n, holds |-> h, err |-> "none", ret |-> <<>>, log |-> <<>>]

Raise(w, e) == [w EXCEPT !.err = e]

InsertAt(s, pos, x) == SubSeq(s, 1, pos) \o <<x>> \o SubSeq(s, pos + 1, Len(s))

RemoveAt(s, pos) == SubSeq(s, 1, pos) \o SubSeq(s, pos + 2, Len(s))

Positions(s, h) == {i \in 0..(Len(s) - 1) : s[i + 1] = h}

Min(S) == CHOOSE x \in S : \A y \in S : x <= y

Max(S) == CHOOSE x \in S : \A y \in S : x >= y

\* the position the engine resolves a page object to (0-based)
findPage(s, h, pick) ==
    IF pick = "first" THEN Min(Positions(s, h)) ELSE Max(Positions(s, h))

\* QPDF::addPageAt(newpage, before = true, refpage)
addPageAt(w, g, page, refpage, pick) ==
    LET pos == findPage(w.pages[g], refpage, pick)
        s   == InsertAt(w.pages[g], pos, page)
    IN  [w EXCEPT !.pages[g] = s,
                  !.log = @ \o <<[k |-> "add", pos |-> pos, n |-> Len(s), page |-> page]>>]

\* QPDF::addPage(newpage, first = false)
addPage(w, g, page) ==
    LET s == Append(w.pages[g], page)
    IN  [w EXCEPT !.pages[g] = s,
                  !.log = @ \o <<[k |-> "add", pos |-> Len(s) - 1, n |-> Len(s),
                                   page |-> page]>>]

\* QPDF::removePage(page)
removePage(w, g, page, pick) ==
    LET pos == findPage(w.pages[g], page, pick)
        s   == RemoveAt(w.pages[g], pos)
    IN  [w EXCEPT !.pages[g] = s,
                  !.log = @ \o <<[k |-> "remove", pos |-> pos, n |-> Len(s), page |-> page]>>]

\* QPDF::makeIndirectObject(page): a new object of g carrying page's dictionary
makeIndirectObject(w, g, page) ==
    [w EXCEPT !.nextObj[g] = @ + 1,
              !.ret = <<Handle(g, w.nextObj[g], page.content)>>]

\* ---------------------------------------------------------------- PageList
count(w, g) == Len(w.pages[g])

\* getPage with the bug of not counting a negative index from the end
getPageFromFrontOnly(w, g, index) ==
    IF w.err # "none" THEN w
    ELSE IF index < 0 THEN Raise(w, "index_error")
    ELSE IF index < count(w, g) THEN [w EXCEPT !.ret = <<w.pages[g][index + 1]>>]
    ELSE Raise(w, "index_error")

\* PageList::getPage(ssize_t index): the page in ret, or index_error
getPage(w, g, index) ==
    LET n  == count(w, g)
        i1 == IF index < 0 THEN ToSsize(index + n) ELSE index
    IN  IF w.err # "none" THEN w
        ELSE IF i1 < 0 THEN Raise(w, "index_error")
        ELSE IF i1 < n THEN [w EXCEPT !.ret = <<w.pages[g][i1 + 1]>>]
        ELSE Raise(w, "index_error")

\* insertPage with the bug of taking no hold on the document that owns a
\* page of another document
insertPageHandleWithoutHold(w, g, index, page, pick) ==
    LET page_owner == getOwningQPDF(page)
        w1 == IF page_owner = g
              THEN makeIndirectObject(w, g, page)
              ELSE [w EXCEPT !.ret = <<page>>]
        newpage == w1.ret[1]
        w2 == getPage(w1, g, ToSsize(index))
    IN  IF w.err # "none" THEN w
        ELSE IF index # count(w1, g)
        THEN IF w2.err # "none" THEN w2
             ELSE addPageAt(w2, g, newpage, w2.ret[1], pick)
        ELSE addPage(w1, g, newpage)

\* insertPage with the bug of listing a page of the bound document as it
\* is, without making a copy
insertPageHandleWithoutCopy(w, g, index, page, pick) ==
    LET page_owner == getOwningQPDF(page)
        w1 == IF page_owner = g
              THEN [w EXCEPT !.ret = <<page>>]
              ELSE [w EXCEPT !.holds[page_owner] = @ + 1, !.ret = <<page>>]
        newpage == w1.ret[1]
        w2 == getPage(w1, g, ToSsize(index))
    IN  IF w.err # "none" THEN w
        ELSE IF index # count(w1, g)
        THEN IF w2.err # "none" THEN w2
             ELSE addPageAt(w2, g, newpage, w2.ret[1], pick)
        ELSE addPage(w1, g, newpage)

\* PageList::insertPage(size_t index, QPDFObjectHandle page)
insertPageHandle(w, g, index, page, pick) ==
    LET page_owner == getOwningQPDF(page)
        w1 == IF page_owner = g
              THEN makeIndirectObject(w, g, page)
              ELSE [w EXCEPT !.holds[page_owner] = @ + 1, !.ret = <<page>>]
        newpage == w1.ret[1]
        w2 == getPage(w1, g, ToSsize(index))
    IN  IF w.err # "none" THEN w
        ELSE IF index # count(w1, g)
        THEN IF w2.err # "none" THEN w2
             ELSE addPageAt(w2, g, newpage, w2.ret[1], pick)
        ELSE addPage(w1, g, newpage)

\* PageList::insertPage(size_t index, py::handle obj)
insertPage(w, g, index, obj, pick) ==
    IF w.err # "none" THEN w
    ELSE IF ~isPageObject(obj) THEN Raise(w, "type_error")
    ELSE insertPageHandle(w, g, index, obj, pick)

\* deletePage with the dec_ref the source has commented out: the hold on
\* the owner of a page of another document is released when it is deleted
deletePageReleasingHold(w, g, index, pick) ==
    LET w1 == getPage(w, g, ToSsize(index))
        page_owner == getOwningQPDF(w1.ret[1])
        w2 == IF page_owner # g THEN [w1 EXCEPT !.holds[page_owner] = @ - 1] ELSE w1
    IN  IF w1.err # "none" THEN w1
        ELSE removePage(w2, g, w1.ret[1], pick)

\* PageList::deletePage(size_t index)
deletePage(w, g, index, pick) ==
    LET w1 == getPage(w, g, ToSsize(index))
    IN  IF w1.err # "none" THEN w1
        ELSE removePage(w1, g, w1.ret[1], pick)

\* PageList::setPage(size_t index, py::object page)
setPage(w, g, index, obj, pick) ==
    LET w1 == insertPage(w, g, index, obj, pick)
    IN  IF w1.err # "none" THEN w1
        ELSE IF index # count(w1, g)
        THEN deletePage(w1, g, ToSize(index + 1), pick)
        ELSE w1

\* ------------------------------------------------------------------ slices
\* A Python slice object: each of start, stop, step is <<>> (None) or <<v>>.
Slice(a, b, c) == [start |-> a, stop |-> b, step |-> c]

\* py::slice::compute(length, &start, &stop, &step, &slicelength), which is
\* PySlice_GetIndicesEx written into four size_t variables
sliceCompute(sl, length) ==
    LET step   == IF sl.step = <<>> THEN 1 ELSE sl.step[1]
        start0 == IF sl.start = <<>>
                  THEN (IF step < 0 THEN SsizeMax ELSE 0)
                  ELSE sl.start[1]
        stop0  == IF sl.stop = <<>>
                  THEN (IF step < 0 THEN (0 - SsizeMax) - 1 ELSE SsizeMax)
                  ELSE sl.stop[1]
        Adj(x) == IF x < 0
                  THEN (IF x + length < 0
                        THEN (IF step < 0 THEN 0 - 1 ELSE 0)
                        ELSE x + length)
                  ELSE (IF x >= length
                        THEN (IF step < 0 THEN length - 1 ELSE length)
                        ELSE x)
        start  == Adj(start0)
        stop   == Adj(stop0)
        len    == IF step = 0 THEN 0
                  ELSE IF step < 0
                  THEN (IF stop < start THEN ((start - stop - 1) \div (0 - step)) + 1 ELSE 0)
                  ELSE (IF start < stop THEN ((stop - start - 1) \div step) + 1 ELSE 0)
    IN  [ok |-> step # 0, start |-> ToSize(start), stop |-> ToSize(stop),
         step |-> ToSize(step), slicelength |-> len]

\* the loop of PageList::getPages
RECURSIVE getPagesLoop(_, _, _, _, _, _, _)
getPagesLoop(w, g, start, step, i, slicelength, result) ==
    IF w.err # "none" THEN w
    ELSE IF i < slicelength
    THEN LET w1 == getPage(w, g, ToSsize(start))
         IN  IF w1.err # "none" THEN w1
             ELSE getPagesLoop(w1, g, ToSize(start + step), step, i + 1, slicelength,
                               Append(result, w1.ret[1]))
    ELSE [w EXCEPT !.ret = result]

\* PageList::getPages(py::slice)
getPages(w, g, sl) ==
    LET c == sliceCompute(sl, count(w, g))
    IN  IF w.err # "none" THEN w
        ELSE IF ~c.ok THEN Raise(w, "value_error_step")
        ELSE getPagesLoop(w, g, c.start, c.step, 0, c.slicelength, <<>>)

\* assert_pyobject_is_page over a whole iterable: does every item pass
allPages(src) == \A i \in 1..Len(src) : isPageObject(src[i])

\* the extended-slice loop of setPagesFromIterable
RECURSIVE setPagesLoop(_, _, _, _, _, _, _, _)
setPagesLoop(w, g, start, step, i, slicelength, results, pick) ==
    IF w.err # "none" THEN w
    ELSE IF i < slicelength
    THEN setPagesLoop(setPage(w, g, ToSize(start + (i * step)), results[i + 1], pick),
                      g, start, step, i + 1, slicelength, results, pick)
    ELSE w

\* the insert loop of the simple-slice branch
RECURSIVE insertPagesLoop(_, _, _, _, _, _)
insertPagesLoop(w, g, start, i, results, pick) ==
    IF w.err # "none" THEN w
    ELSE IF i < Len(results)
    THEN insertPagesLoop(insertPage(w, g, ToSize(start + i), results[i + 1], pick),
                         g, start, i + 1, results, pick)
    ELSE w

\* the delete loop of the simple-slice branch
RECURSIVE deletePagesLoop(_, _, _, _, _, _)
deletePagesLoop(w, g, del_start, i, slicelength, pick) ==
    IF w.err # "none" THEN w
    ELSE IF i < slicelength
    THEN deletePagesLoop(deletePage(w, g, del_start, pick),
                         g, del_start, i + 1, slicelength, pick)
    ELSE w

\* setPagesFromIterable with the bug of checking each item only as it is
\* inserted, not all of them up front
setPagesFromIterableLazily(w, g, sl, other, pick) ==
    LET c == sliceCompute(sl, count(w, g))
    IN  IF w.err # "none" THEN w
        ELSE IF ~c.ok THEN Raise(w, "value_error_step")
        ELSE IF c.step # 1
        THEN IF Len(other) # c.slicelength
             THEN Raise(w, "value_error_length")
             ELSE setPagesLoop(w, g, c.start, c.step, 0, c.slicelength, other, pick)
        ELSE LET w1 == insertPagesLoop(w, g, c.start, 0, other, pick)
             IN  deletePagesLoop(w1, g, ToSize(c.start + Len(other)), 0,
                                 c.slicelength, pick)

\* PageList::setPagesFromIterable(py::slice, py::iterable)
setPagesFromIterable(w, g, sl, other, pick) ==
    LET c == sliceCompute(sl, count(w, g))
    IN  IF w.err # "none" THEN w
        ELSE IF ~c.ok THEN Raise(w, "value_error_step")
        ELSE IF ~allPages(other) THEN Raise(w, "type_error")
        ELSE IF c.step # 1
        THEN IF Len(other) # c.slicelength
             THEN Raise(w, "value_error_length")
             ELSE setPagesLoop(w, g, c.start, c.step, 0, c.slicelength, other, pick)
        ELSE LET w1 == insertPagesLoop(w, g, c.start, 0, other, pick)
             IN  deletePagesLoop(w1, g, ToSize(c.start + Len(other)), 0,
                                 c.slicelength, pick)

\* the "reverse" binding
reverse(w, g, pick) ==
    LET ordinary_indices == Slice(<<0>>, <<count(w, g)>>, <<1>>)
        reversed         == Slice(<<>>, <<>>, <<0 - 1>>)
        w1               == getPages(w, g, reversed)
    IN  IF w1.err # "none" THEN w1
        ELSE setPagesFromIterable(w1, g, ordinary_indices, w1.ret, pick)

\* the loop of the "extend" binding that takes a PageList
RECURSIVE extendLoop(_, _, _, _, _, _)
extendLoop(w, g, og, other_count, i, pick) ==
    IF w.err # "none" THEN w
    ELSE IF i < other_count
    THEN IF other_count # count(w, og)
         THEN Raise(w, "value_error_modified")
         ELSE LET w1 == getPage(w, og, i)
              IN  IF w1.err # "none" THEN w1
                  ELSE extendLoop(insertPageHandle(w1, g, count(w1, g), w1.ret[1], pick),
                                  g, og, other_count, i + 1, pick)
    ELSE w

\* the "extend" binding that takes a PageList
extend(w, g, og, pick) == extendLoop(w, g, og, count(w, og), 0, pick)

\* the "extend" binding that takes an iterable
RECURSIVE extendIterable(_, _, _, _, _)
extendIterable(w, g, src, i, pick) ==
    IF w.err # "none" THEN w
    ELSE IF i < Len(src)
    THEN IF ~isPageObject(src[i + 1]) THEN Raise(w, "type_error")
         ELSE extendIterable(insertPage(w, g, count(w, g), src[i + 1], pick),
                             g, src, i + 1, pick)
    ELSE w

\* the "p" binding (1-based lookup), index a size_t
p(w, g, index) ==
    IF index = 0 THEN Raise(w, "index_error")
    ELSE getPage(w, g, ToSsize(index - 1))

\* A PageList object: the document it is bound to and its cursor.  yielded
\* and ended are history, not fields of the class: the pages __next__ has
\* returned from this object, and whether it has raised StopIteration.
PageListObject(g, iterpos) ==
    [qpdf |-> g, iterpos |-> iterpos, yielded |-> <<>>, ended |-> FALSE]

\* __iter__ with the bug of starting the new PageList at the cursor of the
\* PageList it was asked of
iterFromSameCursor(ls, pl) == Append(ls, PageListObject(ls[pl].qpdf, ls[pl].iterpos))

\* the "__iter__" binding: PageList(pl.getQPDF(), 0), a new object
iter(ls, pl) == Append(ls, PageListObject(ls[pl].qpdf, 0))

\* __next__ with the bug of running against the count taken when the
\* document was opened, not the live count
nextFromSnapshot(w, g, iterpos) ==
    IF iterpos < Len(SelectSeq(w.pages[g], LAMBDA h : h.content = <<h.owner, h.obj>>))
    THEN [w |-> getPage(w, g, ToSsize(iterpos)), iterpos |-> ToSize(iterpos + 1)]
    ELSE [w |-> Raise(w, "stop_iteration"), iterpos |-> iterpos]

\* the "__next__" binding: the outcome and the cursor it leaves
next(w, g, iterpos) ==
    IF iterpos < count(w, g)
    THEN [w |-> getPage(w, g, ToSsize(iterpos)), iterpos |-> ToSize(iterpos + 1)]
    ELSE [w |-> Raise(w, "stop_iteration"), iterpos |-> iterpos]

\* ------------------------------------------------------------ the bindings
\* What a caller can pass.  A page argument is any handle some document
\* currently lists (read with getPage), or an object that is no page.
RECURSIVE SeqsUpTo(_, _)
SeqsUpTo(S, n) ==
    IF n = 0 THEN {<<>>}
    ELSE SeqsUpTo(S, n - 1) \cup
         {Append(q, x) : q \in {r \in SeqsUpTo(S, n - 1) : Len(r) = n - 1}, x \in S}

Range(s) == {s[i] : i \in 1..Len(s)}

Objs == UNION {Range(pages[g]) : g \in Docs} \cup {NotAPage}

Sources == SeqsUpTo(Objs, MaxSrc)

\* size_t arguments: in range, one and two past the end, and the top of the range
SizeArgs(g) == 0..(Len(pages[g]) + 1) \cup {SizeMod - 1}

\* ssize_t arguments: in range from either end, one and two outside, and the
\* two ends of the type's range
SsizeArgs(g) ==
    (0 - (Len(pages[g]) + 2))..(Len(pages[g]) + 1) \cup {SsizeMax, (0 - SsizeMax) - 1}

Opt(S) == {<<>>} \cup {<<x>> : x \in S}

\* simple slices, and extended slices with step -1, 2 and the invalid step 0
Slices ==
    {Slice(a, b, <<>>) : a \in Opt(0..1), b \in Opt(1..2)} \cup
    {Slice(a, <<>>, <<c>>) : a \in Opt({1}), c \in {0 - 1, 0, 1, 2}}

\* the exploration stays inside the bounds
Within(w) ==
    \A g \in Docs :
        /\ Len(w.pages[g]) <= MaxPages
        /\ w.nextObj[g] <= MaxObj + 1
        /\ w.holds[g] <= MaxHolds

Here == World(pages, nextObj, holds)

NoSlice == Slice(<<>>, <<>>, <<>>)

Call(op, pl, index, obj, sl, src, og) ==
    [op |-> op, pl |-> pl, g |-> lists[pl].qpdf, index |-> index, obj |-> obj,
     slice |-> sl, src |-> src, og |-> og]

\* last is a history variable.  It records one call per behaviour, the call
\* under observation (watch = TRUE), with the state it started from; the calls
\* before it leave last blank, so that the reachable states are the states of
\* the program and not also its histories.
Blank ==
    [observed |-> FALSE,
     call |-> [op |-> "none", pl |-> 1, g |-> "A", index |-> 0, obj |-> NotAPage,
               slice |-> NoSlice, src |-> <<>>, og |-> "none"],
     err |-> "none", ret |-> <<>>, log |-> <<>>,
     before |-> <<>>, nextBefore |-> <<>>, holdsBefore |-> <<>>, listsBefore |-> <<>>]

\* a call of the binding ends in world w, returning ret (<<>> for None)
Finish(call, w, ret, watch) ==
    /\ Within(w)
    /\ pages' = w.pages
    /\ nextObj' = w.nextObj
    /\ holds' = w.holds
    /\ last' = IF watch
               THEN [observed |-> TRUE, call |-> call, err |-> w.err,
                     ret |-> IF w.err = "none" THEN ret ELSE <<>>,
                     log |-> w.log, before |-> pages, nextBefore |-> nextObj,
                     holdsBefore |-> holds, listsBefore |-> lists]
               ELSE Blank

PageLists == 1..Len(lists)

\* __getitem__(index)
GetItem(pl, index, watch) ==
    LET g == lists[pl].qpdf
        w == getPage(Here, g, index)
    IN  /\ Finish(Call("getitem", pl, index, NotAPage, NoSlice, <<>>, "none"), w, w.ret, watch)
        /\ UNCHANGED lists

\* __getitem__(slice)
GetSlice(pl, sl, watch) ==
    LET g == lists[pl].qpdf
        w == getPages(Here, g, sl)
    IN  /\ Finish(Call("getslice", pl, 0, NotAPage, sl, <<>>, "none"), w, w.ret, watch)
        /\ UNCHANGED lists

\* __setitem__(index, page)
SetItem(pl, index, obj, pick, watch) ==
    LET g == lists[pl].qpdf
        w == setPage(Here, g, index, obj, pick)
    IN  /\ Finish(Call("setitem", pl, index, obj, NoSlice, <<>>, "none"), w, <<>>, watch)
        /\ UNCHANGED lists

\* __setitem__(slice, iterable)
SetSlice(pl, sl, src, pick, watch) ==
    LET g == lists[pl].qpdf
        w == setPagesFromIterable(Here, g, sl, src, pick)
    IN  /\ Finish(Call("setslice", pl, 0, NotAPage, sl, src, "none"), w, <<>>, watch)
        /\ UNCHANGED lists

\* __delitem__(index)
DelItem(pl, index, pick, watch) ==
    LET g == lists[pl].qpdf
        w == deletePage(Here, g, index, pick)
    IN  /\ Finish(Call("delitem", pl, index, NotAPage, NoSlice, <<>>, "none"), w, <<>>, watch)
        /\ UNCHANGED lists

\* p(index)
P(pl, index, watch) ==
    LET g == lists[pl].qpdf
        w == p(Here, g, index)
    IN  /\ Finish(Call("p", pl, index, NotAPage, NoSlice, <<>>, "none"), w, w.ret, watch)
        /\ UNCHANGED lists

\* insert(index, page)
Insert(pl, index, obj, pick, watch) ==
    LET g == lists[pl].qpdf
        w == insertPage(Here, g, index, obj, pick)
    IN  /\ Finish(Call("insert", pl, index, obj, NoSlice, <<>>, "none"), w, <<>>, watch)
        /\ UNCHANGED lists

\* append(page)
AppendPage(pl, obj, watch) ==
    LET g == lists[pl].qpdf
        w == insertPage(Here, g, count(Here, g), obj, "first")
    IN  /\ Finish(Call("append", pl, count(Here, g), obj, NoSlice, <<>>, "none"), w, <<>>, watch)
        /\ UNCHANGED lists

\* reverse()
Reverse(pl, pick, watch) ==
    LET g == lists[pl].qpdf
        w == reverse(Here, g, pick)
    IN  /\ Finish(Call("reverse", pl, 0, NotAPage, NoSlice, <<>>, "none"), w, <<>>, watch)
        /\ UNCHANGED lists

\* extend(other PageList)
Extend(pl, other, watch) ==
    LET g  == lists[pl].qpdf
        og == lists[other].qpdf
        w  == extend(Here, g, og, "first")
    IN  /\ Finish(Call("extend", pl, 0, NotAPage, NoSlice, <<>>, og), w, <<>>, watch)
        /\ UNCHANGED lists

\* extend(iterable)
ExtendIterable(pl, src, watch) ==
    LET g == lists[pl].qpdf
        w == extendIterable(Here, g, src, 0, "first")
    IN  /\ Finish(Call("extend_iterable", pl, 0, NotAPage, NoSlice, src, "none"), w, <<>>, watch)
        /\ UNCHANGED lists

\* __iter__()
Iter(pl, watch) ==
    /\ Len(lists) < MaxLists
    /\ Finish(Call("iter", pl, 0, NotAPage, NoSlice, <<>>, "none"), Here, <<Len(lists) + 1>>, watch)
    /\ lists' = iter(lists, pl)

\* __next__()
NextItem(pl, watch) ==
    LET g == lists[pl].qpdf
        r == next(Here, g, lists[pl].iterpos)
    IN  /\ Finish(Call("next", pl, lists[pl].iterpos, NotAPage, NoSlice, <<>>, "none"),
                  r.w, r.w.ret, watch)
        /\ lists' = [lists EXCEPT ![pl] =
                        [qpdf    |-> g,
                         iterpos |-> r.iterpos,
                         yielded |-> IF r.w.err = "none" THEN @.yielded \o r.w.ret
                                     ELSE @.yielded,
                         ended   |-> @.ended \/ r.w.err = "stop_iteration"]]

\* ---------------------------------------------------------- specification
InitialPages(g, n) == [i \in 1..n |-> OwnPage(g, i)]

Init ==
    /\ \E n \in [Docs -> 0..InitPages] :
          /\ pages = [g \in Docs |-> InitialPages(g, n[g])]
          /\ nextObj = [g \in Docs |-> n[g] + 1]
    /\ holds = [g \in Docs |-> 0]
    /\ lists = <<PageListObject("A", 0), PageListObject("B", 0)>>
    /\ last = Blank

\* the PageLists that are changed: those of document "A"
Targets == {pl \in PageLists : lists[pl].qpdf = "A"}

\* The engine's lookup is ambiguous only for an object listed twice, which
\* takes a page of another document listed or passed twice (a page of
\* document g itself is copied, and the copy is a new object).
Ambiguous(g, src) ==
    LET s == pages[g] \o SelectSeq(src, LAMBDA h : isPageObject(h) /\ h.owner # g)
    IN  \E i, j \in 1..Len(s) : i < j /\ s[i] = s[j]

Picks(g, src) == IF Ambiguous(g, src) THEN {"first", "last"} ELSE {"first"}

\* one action per method of the binding, over everything a caller can pass
Watching == ~last.observed

GetItemCall ==
    /\ Watching
    /\ \E pl \in PageLists : \E index \in SsizeArgs(lists[pl].qpdf) :
          \E watch \in BOOLEAN : GetItem(pl, index, watch)

GetSliceCall ==
    /\ Watching
    /\ \E pl \in PageLists : \E sl \in Slices : \E watch \in BOOLEAN :
          GetSlice(pl, sl, watch)

PCall ==
    /\ Watching
    /\ \E pl \in PageLists : \E index \in SizeArgs(lists[pl].qpdf) :
          \E watch \in BOOLEAN : P(pl, index, watch)

SetItemCall ==
    /\ Watching
    /\ \E pl \in Targets : \E index \in SizeArgs("A") : \E obj \in Objs :
          \E pick \in Picks("A", <<obj>>) : \E watch \in BOOLEAN :
             SetItem(pl, index, obj, pick, watch)

SetSliceCall ==
    /\ Watching
    /\ \E pl \in Targets : \E sl \in Slices : \E src \in Sources :
          \E pick \in Picks("A", src) : \E watch \in BOOLEAN :
             SetSlice(pl, sl, src, pick, watch)

DelItemCall ==
    /\ Watching
    /\ \E pl \in Targets : \E index \in SizeArgs("A") : \E pick \in Picks("A", <<>>) :
          \E watch \in BOOLEAN : DelItem(pl, index, pick, watch)

InsertCall ==
    /\ Watching
    /\ \E pl \in Targets : \E index \in SizeArgs("A") : \E obj \in Objs :
          \E pick \in Picks("A", <<obj>>) : \E watch \in BOOLEAN :
             Insert(pl, index, obj, pick, watch)

AppendCall ==
    /\ Watching
    /\ \E pl \in Targets : \E obj \in Objs : \E watch \in BOOLEAN :
          AppendPage(pl, obj, watch)

ReverseCall ==
    /\ Watching
    /\ \E pl \in Targets : \E pick \in Picks("A", pages["A"]) : \E watch \in BOOLEAN :
          Reverse(pl, pick, watch)

ExtendCall ==
    /\ Watching
    /\ \E pl \in Targets : \E other \in PageLists : \E watch \in BOOLEAN :
          Extend(pl, other, watch)

ExtendIterableCall ==
    /\ Watching
    /\ \E pl \in Targets : \E src \in Sources : \E watch \in BOOLEAN :
          ExtendIterable(pl, src, watch)

Next ==
    \/ GetItemCall
    \/ GetSliceCall
    \/ PCall
    \/ SetItemCall
    \/ SetSliceCall
    \/ DelItemCall
    \/ InsertCall
    \/ AppendCall
    \/ ReverseCall
    \/ ExtendCall
    \/ ExtendIterableCall

Spec == Init /\ [][Next]_vars

\* ------------------------------------------------ single-operation views
\* the same bindings with one operation observed and the collections it is
\* called on built by unobserved appends and deletes
QuietAppend ==
    /\ Watching
    /\ \E pl \in Targets : \E obj \in Objs : AppendPage(pl, obj, FALSE)

QuietDelete ==
    /\ Watching
    /\ \E pl \in Targets : \E index \in SizeArgs("A") :
          \E pick \in Picks("A", <<>>) : DelItem(pl, index, pick, FALSE)

GetItemObserved ==
    /\ Watching
    /\ \E pl \in PageLists : \E index \in SsizeArgs(lists[pl].qpdf) :
          GetItem(pl, index, TRUE)

SetSliceObserved ==
    /\ Watching
    /\ \E pl \in Targets : \E sl \in Slices : \E src \in Sources :
          \E pick \in Picks("A", src) : SetSlice(pl, sl, src, pick, TRUE)

InsertObserved ==
    /\ Watching
    /\ \E pl \in Targets : \E index \in SizeArgs("A") : \E obj \in Objs :
          \E pick \in Picks("A", <<obj>>) : Insert(pl, index, obj, pick, TRUE)

NextInsert ==
    \/ QuietAppend
    \/ QuietDelete
    \/ InsertObserved

SpecInsert == Init /\ [][NextInsert]_vars

\* iteration (of the PageLists of document "A") over collections that do
\* not change once a cursor has moved
IterCall ==
    /\ Watching
    /\ \E pl \in Targets : Iter(pl, FALSE)

NextItemCall ==
    /\ Watching
    /\ \E pl \in Targets : NextItem(pl, FALSE)

NotIterating == \A pl \in PageLists : lists[pl].yielded = <<>> /\ ~lists[pl].ended

AppendBeforeIterating ==
    /\ NotIterating
    /\ QuietAppend

NextIter ==
    \/ AppendBeforeIterating
    \/ IterCall
    \/ NextItemCall

SpecIter == Init /\ [][NextIter]_vars

\* iteration interleaved with appends: at any moment a page the document
\* lists may be appended to it again (as a copy), so that the count grows
\* under the cursors
AppendWhileIterating ==
    /\ Watching
    /\ \E pl \in Targets : \E obj \in Range(pages["A"]) : AppendPage(pl, obj, FALSE)

NextItemObserved ==
    /\ Watching
    /\ \E pl \in Targets : NextItem(pl, TRUE)

NextLive ==
    \/ AppendWhileIterating
    \/ IterCall
    \/ NextItemCall
    \/ NextItemObserved

SpecLive == Init /\ [][NextLive]_vars

NextGet ==
    \/ QuietAppend
    \/ QuietDelete
    \/ GetItemObserved

SpecGet == Init /\ [][NextGet]_vars

NextSlice ==
    \/ QuietAppend
    \/ SetSliceObserved

SpecSlice == Init /\ [][NextSlice]_vars

\* --------------------------------------------------- every mutation, unobserved
\* all the bindings that change a page collection, none of them recorded in
\* last: the states of this specification are the states of the program
QuietInsert ==
    /\ Watching
    /\ \E pl \in Targets : \E index \in SizeArgs("A") : \E obj \in Objs :
          \E pick \in Picks("A", <<obj>>) : Insert(pl, index, obj, pick, FALSE)

QuietSetItem ==
    /\ Watching
    /\ \E pl \in Targets : \E index \in SizeArgs("A") : \E obj \in Objs :
          \E pick \in Picks("A", <<obj>>) : SetItem(pl, index, obj, pick, FALSE)

QuietSetSlice ==
    /\ Watching
    /\ \E pl \in Targets : \E sl \in Slices : \E src \in Sources :
          \E pick \in Picks("A", src) : SetSlice(pl, sl, src, pick, FALSE)

QuietReverse ==
    /\ Watching
    /\ \E pl \in Targets : \E pick \in Picks("A", pages["A"]) : Reverse(pl, pick, FALSE)

QuietExtend ==
    /\ Watching
    /\ \E pl \in Targets : \E other \in PageLists : Extend(pl, other, FALSE)

QuietExtendIterable ==
    /\ Watching
    /\ \E pl \in Targets : \E src \in Sources : ExtendIterable(pl, src, FALSE)

NextQuiet ==
    \/ QuietInsert
    \/ QuietAppend
    \/ QuietSetItem
    \/ QuietSetSlice
    \/ QuietDelete
    \/ QuietReverse
    \/ QuietExtend
    \/ QuietExtendIterable

SpecQuiet == Init /\ [][NextQuiet]_vars

\* ================================================================== claims
\* the observed call, the collection it found and the collection it left
Observed(op) == last.observed /\ last.call.op = op

Old == last.before[last.call.g]

New == pages[last.call.g]

\* h is what insertPage lists for the argument page: a new object of the
\* bound document carrying page's dictionary when page is owned by the bound
\* document, the handle itself otherwise
Placed(h, page) ==
    IF page.owner = last.call.g
    THEN /\ h.owner = last.call.g
         /\ h.obj >= last.nextBefore[last.call.g]
         /\ h.content = page.content
    ELSE h = page

\* the other documents, the holds and the PageList cursors are as before
OthersUntouched ==
    /\ \A g \in Docs \ {last.call.g} : pages[g] = last.before[g]
    /\ lists = last.listsBefore

NothingChanged ==
    /\ pages = last.before
    /\ nextObj = last.nextBefore
    /\ holds = last.holdsBefore
    /\ lists = last.listsBefore

SetPageAtCountAppends ==
    (/\ Observed("setitem")
     /\ last.call.index = Len(Old)
     /\ isPageObject(last.call.obj))
    => /\ last.err = "none"
       /\ Len(New) = Len(Old) + 1
       /\ \A j \in 1..Len(Old) : New[j] = Old[j]

DeleteRemovesIndex ==
    Observed("delitem")
    => IF last.call.index < Len(Old)
       THEN /\ last.err = "none"
            /\ Len(New) = Len(Old) - 1
            /\ \A j \in 1..Len(New) :
                  New[j] = IF j <= last.call.index THEN Old[j] ELSE Old[j + 1]
       ELSE /\ last.err = "index_error"
            /\ New = Old

\* C6: getPage(i) against a collection of n pages returns the page at i for
\* 0 <= i < n, the page at i + n for -n <= i < 0, and fails with out-of-range
\* for every other i; it changes no page collection and no cursor.
GetPageResolvesIndex ==
    Observed("getitem")
    => LET n == Len(Old)
           i == last.call.index
       IN  /\ (0 <= i /\ i < n) => (last.err = "none" /\ last.ret = <<Old[i + 1]>>)
           /\ (0 - n <= i /\ i < 0) => (last.err = "none" /\ last.ret = <<Old[i + n + 1]>>)
           /\ (i >= n \/ i < 0 - n) => (last.err = "index_error" /\ last.ret = <<>>)
           /\ NothingChanged

\* C6 witness: a negative index has been resolved from the end of a
\* collection of two or more pages
GetPageFromEndSeen ==
    /\ Observed("getitem")
    /\ Len(Old) >= 2
    /\ last.call.index = 0 - 1
    /\ last.ret = <<Old[Len(Old)]>>

\* the slice of the observed setSlice, resolved against the count it found
Resolved == sliceCompute(last.call.slice, Len(Old))

ExtendWithItselfFails ==
    (/\ Observed("extend")
     /\ last.call.og = last.call.g
     /\ Len(Old) >= 1)
    => last.err = "value_error_modified"

\* C11: an extend that fails, with type-mismatch on an item of an iterable
\* that is no page or with concurrent-modification on a PageList source, has
\* appended nothing: the page collections, the counts, the object numbers and
\* the holds are as before the call.
ExtendFailureChangesNothing ==
    (/\ Observed("extend") \/ Observed("extend_iterable")
     /\ last.err \in {"type_error", "value_error_modified"})
    => NothingChanged

\* C12: whenever the page collection of a document lists a page owned by
\* another document, a hold (inc_ref) on that other document is in place,
\* whatever inserts, appends, extends, replacements, slice assignments,
\* reversals and deletions came before.
ForeignPagesAreHeld ==
    \A g \in Docs : \A i \in 1..Len(pages[g]) :
        pages[g][i].owner # g => holds[pages[g][i].owner] >= 1

\* C12 witness: a document lists a single page of another document after
\* listing pages of that document more than once
ForeignPageListedSeen ==
    \E g \in Docs :
        /\ Len(pages[g]) = 1
        /\ pages[g][1].owner # g
        /\ holds[pages[g][1].owner] >= 2

\* C13: inserting a page owned by the bound document at a valid index never
\* lists the supplied handle itself: exactly one page is added, it is a new
\* object of the bound document carrying the page's dictionary, different
\* from the supplied handle and from every page listed before, and the pages
\* listed before (the original among them) stay, in their order.
OwnPageInsertedAsFreshCopy ==
    (/\ Observed("insert")
     /\ last.call.obj.owner = last.call.g
     /\ last.call.index <= Len(Old))
    => /\ last.err = "none"
       /\ \E k \in 0..Len(Old) :
             /\ RemoveAt(New, k) = Old
             /\ New[k + 1] # last.call.obj
             /\ \A j \in 1..Len(Old) : New[k + 1] # Old[j]
             /\ Placed(New[k + 1], last.call.obj)

\* C13 witness: a page of the bound document has been inserted before
\* itself, into a collection that already lists a copy of it
OwnPageInsertedAgainSeen ==
    /\ Observed("insert")
    /\ last.err = "none"
    /\ last.call.obj.owner = last.call.g
    /\ last.call.index < Len(Old)
    /\ Old[last.call.index + 1] = last.call.obj
    /\ \E j \in 1..Len(Old) :
          Old[j] # last.call.obj /\ Old[j].content = last.call.obj.content

\* C14: while the document is not changed, every PageList has returned
\* from __next__ exactly the pages at positions 0 .. iterpos-1, in that
\* order and once each, it signals end-of-sequence only when all count pages
\* have been returned, and a PageList that has returned nothing (a new
\* iterator) has its cursor at 0, wherever the other cursors are.
IteratorYieldsPagesInOrder ==
    \A pl \in PageLists :
        LET g == lists[pl].qpdf
        IN  /\ lists[pl].iterpos <= Len(pages[g])
            /\ lists[pl].yielded = SubSeq(pages[g], 1, lists[pl].iterpos)
            /\ lists[pl].ended => lists[pl].iterpos = Len(pages[g])

\* C14 witness: two iterators over the same two or more pages, one at the
\* end of the sequence and one that has not moved, the PageList they were
\* made from having its own cursor in between
IteratorsIndependentSeen ==
    \E i, j \in PageLists :
        /\ i > 2 /\ j > 2 /\ i # j
        /\ lists[i].qpdf = "A" /\ lists[j].qpdf = "A"
        /\ Len(pages["A"]) >= 2
        /\ lists[i].ended
        /\ lists[j].iterpos = 0
        /\ lists[1].iterpos = 1

\* C15: p(0) fails with out-of-range; p(n) with 1 <= n <= count returns the
\* page at position n-1, and p(n) with n > count fails with out-of-range.
PIsOneBased ==
    Observed("p")
    => LET n == last.call.index
       IN  IF 1 <= n /\ n <= Len(Old)
           THEN last.err = "none" /\ last.ret = <<Old[n]>>
           ELSE last.err = "index_error" /\ last.ret = <<>>

\* the engine calls of the observed call that added, and that removed, a page
Adds == SelectSeq(last.log, LAMBDA e : e.k = "add")

Removes == SelectSeq(last.log, LAMBDA e : e.k = "remove")

\* position j (from 0) of the extended slice of the observed setSlice
SlicePos(j) == Resolved.start + (j * ToSsize(Resolved.step))

InsertsBeforeDeletes ==
    \A i, j \in 1..Len(last.log) :
        (last.log[i].k = "remove" /\ last.log[j].k = "add") => j < i

NextUsesLiveCount ==
    Observed("next")
    => LET pl == last.call.pl
           k  == last.listsBefore[pl].iterpos
       IN  /\ IF k < Len(Old)
              THEN /\ last.err = "none"
                   /\ last.ret = <<Old[k + 1]>>
                   /\ lists[pl].iterpos = k + 1
              ELSE /\ last.err = "stop_iteration"
                   /\ last.ret = <<>>
                   /\ lists[pl].iterpos = k
           /\ Len(lists) = Len(last.listsBefore)
           /\ \A q \in PageLists \ {pl} : lists[q] = last.listsBefore[q]
           /\ pages = last.before /\ nextObj = last.nextBefore /\ holds = last.holdsBefore

\* C18 witness: an iterator that had signalled end-of-sequence returns the
\* page appended since
YieldsAgainAfterAppendSeen ==
    /\ Observed("next")
    /\ last.call.pl > 2
    /\ last.listsBefore[last.call.pl].ended
    /\ last.err = "none"
    /\ last.ret = <<Old[Len(Old)]>>
    /\ last.listsBefore[last.call.pl].iterpos = Len(Old) - 1

\* the pages of document f that the observed call has had the engine add
AddsOf(f) == SelectSeq(Adds, LAMBDA e : e.page.owner = f)

\* C19: deleting a page leaves every hold as it was, also when the page was
\* the only page of another document the collection listed; no call lowers
\* the number of holds on a document, and the holds on a document other than
\* the bound one grow by one with every page of that document inserted.
HoldsNeverReleased ==
    last.observed
    => /\ Observed("delitem") => holds = last.holdsBefore
       /\ \A f \in Docs : holds[f] >= last.holdsBefore[f]
       /\ \A f \in Docs \ {last.call.g} :
             /\ holds[f] >= last.holdsBefore[f] + Len(AddsOf(f))
             /\ last.err = "none" => holds[f] = last.holdsBefore[f] + Len(AddsOf(f))

\* C19 witness: the only page of another document that the collection
\* listed has been deleted and the hold on that document is still there
LastForeignPageDeletedSeen ==
    /\ Observed("delitem")
    /\ last.err = "none"
    /\ Len(Removes) = 1
    /\ Removes[1].page.owner = "B"
    /\ \A i \in 1..Len(New) : New[i].owner = "A"
    /\ holds["B"] = 1

\* C20: insertPage(index, page) with index greater than the count fails
\* with out-of-range and has no effect: the page collections and counts are
\* as before, no hold has been taken and no new object has been made.
InsertPastEndChangesNothing ==
    (/\ Observed("insert")
     /\ last.call.index > Len(Old)
     /\ isPageObject(last.call.obj))
    => /\ last.err = "index_error"
       /\ NothingChanged

====
